---- MODULE Spec2Model ----
(***************************************************************************)
(* Model of services/sharedchannel/msg.go: postsToSyncMessages and its     *)
(* helpers usersForPost, shouldUserSync and sanitizeUserForSync.           *)
(*                                                                         *)
(* A pass is one call of postsToSyncMessages for one remote cluster.  The  *)
(* state is the batch of post objects, the content of the stores the call  *)
(* reads (reactions, users, SharedChannelUsers cursors), which store calls *)
(* are failing, and per remote the locals and the result of the call.      *)
(*                                                                         *)
(* Spec is one pass for one remote.  SpecRepeated is passes for one remote *)
(* one after the other over the same batch.  SpecConcurrent is two passes, *)
(* one for each remote, running together over the same post objects.       *)
(***************************************************************************)
EXTENDS Integers, Sequences, FiniteSets, TLC

\* ---------------------------------------------------------------- bounds
MaxPosts == 2       \* posts in one batch
MaxReactions == 2   \* reactions the store returns in one pass
MaxTime == 2        \* largest timestamp
MaxFaults == 2      \* store calls that fail during one pass
MaxPasses == 2      \* passes the caller runs for one remote, one after the other

Remotes == {"r1", "r2"}
Targets == {"r1"}                     \* the remotes a pass is run for
NoRemote == "nil"                     \* a nil *string RemoteId
Origins == {NoRemote} \cup Remotes
UserIds == {"u1", "u2"}
NewIds == {"id1", "id2"}              \* values model.NewId() can return
Times == 0 .. MaxTime
NilPost == 0                          \* a nil *model.Post

VARIABLES
    posts,      \* the batch: posts[i] is the post object the i-th pointer refers to
    reactions,  \* reactions[i]: what the reaction store holds for post i and the pass
    users,      \* the user store: users[id]
    cursors,    \* the SharedChannelUsers table: cursors[id][r]
    faults,     \* the store calls that fail with a store error
    pass        \* pass[r]: the arguments, the locals and the result of the call for r

vars == <<posts, reactions, users, cursors, faults, pass>>

\* ------------------------------------------------------------ data model
SystemType == "system_join_channel"
LocalPermalink == "see /team/pl/p0"
RemotePermalink == "see /{{remote}}/pl/p0"
TornMessage == "see /{{remote}}/p"      \* a string header read or written half-way

Post(i, type, u, e, d, o) ==
    [Id |-> i, ChannelId |-> "ch", Type |-> type, UserId |-> u, EditAt |-> e,
     DeleteAt |-> d, RemoteId |-> o, Message |-> LocalPermalink]

IsSystemMessage(p) == p.Type = SystemType

processPermalinkToRemote(p) ==
    IF p.Message = LocalPermalink THEN RemotePermalink ELSE p.Message

\* A user record as the user store holds it: every sensitive field is set.
StoredUser(id, origin, updateAt) ==
    [Id |-> id, RemoteId |-> origin, UpdateAt |-> updateAt,
     Password |-> "hash", AuthData |-> "authdata", AuthService |-> "ldap",
     Roles |-> "system_admin system_user", AllowMarketing |-> TRUE,
     Props |-> {<<"theme", "dark">>}, NotifyProps |-> {<<"email", "true">>},
     LastPasswordUpdate |-> updateAt, LastPictureUpdate |-> updateAt,
     FailedAttempts |-> 1, MfaActive |-> TRUE, MfaSecret |-> "secret"]

\* Mutant: the second-factor secret is not reset.
sanitizeUserForSyncKeepsSecret(user, newId) ==
    [user EXCEPT !.Password = newId,
                 !.AuthData = "nil",
                 !.AuthService = "",
                 !.Roles = "system_user",
                 !.AllowMarketing = FALSE,
                 !.Props = {},
                 !.NotifyProps = {},
                 !.LastPasswordUpdate = 0,
                 !.LastPictureUpdate = 0,
                 !.FailedAttempts = 0,
                 !.MfaActive = FALSE]

sanitizeUserForSync(user, newId) ==
    [user EXCEPT !.Password = newId,
                 !.AuthData = "nil",
                 !.AuthService = "",
                 !.Roles = "system_user",
                 !.AllowMarketing = FALSE,
                 !.Props = {},
                 !.NotifyProps = {},
                 !.LastPasswordUpdate = 0,
                 !.LastPictureUpdate = 0,
                 !.FailedAttempts = 0,
                 !.MfaActive = FALSE,
                 !.MfaSecret = ""]

\* ------------------------------------------------------------- the stores
Absent == [st |-> "absent", LastSyncAt |-> 0]
Present(t) == [st |-> "present", LastSyncAt |-> t]

\* One store call as the pass made it: the operation, its key, how it ended and
\* the timestamp it returned (UpdateAt of a user, LastSyncAt of a cursor).
Call(op, id, res, at) == [op |-> op, id |-> id, res |-> res, at |-> at]

\* Reaction().GetForPostSince(p.Id, nextSyncAt, rc.RemoteId, true)
GetForPostSince(i) ==
    IF i \in faults.GetForPostSince
    THEN [err |-> TRUE, reactions |-> <<>>]
    ELSE [err |-> FALSE, reactions |-> reactions[i]]

\* User().Get(ctx, id)
UserGet(id) ==
    IF id \in faults.UserGet
    THEN [err |-> TRUE, user |-> users[id]]
    ELSE [err |-> FALSE, user |-> users[id]]

\* SharedChannel().GetUser(userId, remoteId): found, errNotFound or another error.
GetUser(cs, id, r) ==
    IF id \in faults.GetUser THEN [res |-> "error", scu |-> Absent]
    ELSE IF cs[id][r].st = "absent" THEN [res |-> "notfound", scu |-> Absent]
    ELSE [res |-> "found", scu |-> cs[id][r]]

\* SharedChannel().SaveUser(scu), scu.LastSyncAt left at its zero value.
SaveUser(cs, id, r) ==
    IF id \in faults.SaveUser
    THEN [err |-> TRUE, cursors |-> cs]
    ELSE [err |-> FALSE, cursors |-> [cs EXCEPT ![id][r] = Present(0)]]

\* postToAttachments(postSync, rc, nextSyncAt)
postToAttachments(i) ==
    IF i \in faults.postToAttachments
    THEN [err |-> TRUE, files |-> <<>>]
    ELSE [err |-> FALSE, files |-> <<"file1">>]

\* Mutant: the attachments are fetched for a post whose body is not sent too.
attachmentsOfAnyPost(i, postSync) == postToAttachments(i)

\* Lines 86-99: the attachments of the post, fetched only when its body is sent;
\* a failure is logged and leaves the list empty.
attachmentsOf(i, postSync) ==
    IF postSync # NilPost THEN postToAttachments(i)
    ELSE [err |-> FALSE, files |-> <<>>]

\* --------------------------------------------------------- shouldUserSync
\* Mutant: every lookup error counts as another error than errNotFound.
isNotFoundNever(res) == FALSE

\* Line 192: err.(errNotFound)
isNotFound(res) == res = "notfound"

\* Mutant: a cursor as new as the user still has the user synchronized.
isSyncedStrictly(scu, user) == scu.LastSyncAt > user.UpdateAt

\* Line 207: scu.LastSyncAt >= user.UpdateAt
isSynced(scu, user) == scu.LastSyncAt >= user.UpdateAt

\* Mutant: a lookup error other than errNotFound still adds the user to the table.
syncByCursorSavingOnError(user, r, cs) ==
    LET g == GetUser(cs, user.Id, r)
        get == Call("GetUser", user.Id, g.res, g.scu.LastSyncAt)
        s == SaveUser(cs, user.Id, r)
        save == Call("SaveUser", user.Id, IF s.err THEN "error" ELSE "ok", 0)
    IN
    IF g.res # "found"
    THEN IF ~isNotFound(g.res)
         THEN [sync |-> FALSE, err |-> TRUE, cursors |-> s.cursors, calls |-> <<get, save>>]
         ELSE [sync |-> TRUE, err |-> FALSE, cursors |-> s.cursors, calls |-> <<get, save>>]
    ELSE IF isSynced(g.scu, user)
    THEN [sync |-> FALSE, err |-> FALSE, cursors |-> cs, calls |-> <<get>>]
    ELSE [sync |-> TRUE, err |-> FALSE, cursors |-> cs, calls |-> <<get>>]

\* Mutant: a failing SaveUser is returned as the error of the decision.
syncByCursorSaveFatal(user, r, cs) ==
    LET g == GetUser(cs, user.Id, r)
        get == Call("GetUser", user.Id, g.res, g.scu.LastSyncAt)
        s == SaveUser(cs, user.Id, r)
        save == Call("SaveUser", user.Id, IF s.err THEN "error" ELSE "ok", 0)
    IN
    IF g.res # "found"
    THEN IF ~isNotFound(g.res)
         THEN [sync |-> FALSE, err |-> TRUE, cursors |-> cs, calls |-> <<get>>]
         ELSE [sync |-> ~s.err, err |-> s.err, cursors |-> s.cursors, calls |-> <<get, save>>]
    ELSE IF isSynced(g.scu, user)
    THEN [sync |-> FALSE, err |-> FALSE, cursors |-> cs, calls |-> <<get>>]
    ELSE [sync |-> TRUE, err |-> FALSE, cursors |-> cs, calls |-> <<get>>]

\* Mutant: a cursor older than the user is moved up to the UpdateAt of the user.
syncByCursorAdvancing(user, r, cs) ==
    LET g == GetUser(cs, user.Id, r)
        get == Call("GetUser", user.Id, g.res, g.scu.LastSyncAt)
        s == SaveUser(cs, user.Id, r)
        save == Call("SaveUser", user.Id, IF s.err THEN "error" ELSE "ok", 0)
    IN
    IF g.res # "found"
    THEN IF ~isNotFound(g.res)
         THEN [sync |-> FALSE, err |-> TRUE, cursors |-> cs, calls |-> <<get>>]
         ELSE [sync |-> TRUE, err |-> FALSE, cursors |-> s.cursors, calls |-> <<get, save>>]
    ELSE IF isSynced(g.scu, user)
    THEN [sync |-> FALSE, err |-> FALSE, cursors |-> cs, calls |-> <<get>>]
    ELSE [sync |-> TRUE, err |-> FALSE,
          cursors |-> [cs EXCEPT ![user.Id][r] = Present(user.UpdateAt)],
          calls |-> <<get>>]

\* Lines 190-210: the decision by the cursor of (user, rc).
syncByCursor(user, r, cs) ==
    LET g == GetUser(cs, user.Id, r)
        get == Call("GetUser", user.Id, g.res, g.scu.LastSyncAt)
    IN
    IF g.res # "found"
    THEN IF ~isNotFound(g.res)
         THEN [sync |-> FALSE, err |-> TRUE, cursors |-> cs, calls |-> <<get>>]
         ELSE LET s == SaveUser(cs, user.Id, r) IN
              [sync |-> TRUE, err |-> FALSE, cursors |-> s.cursors,
               calls |-> <<get, Call("SaveUser", user.Id,
                                     IF s.err THEN "error" ELSE "ok", 0)>>]
    ELSE IF isSynced(g.scu, user)
    THEN [sync |-> FALSE, err |-> FALSE, cursors |-> cs, calls |-> <<get>>]
    ELSE [sync |-> TRUE, err |-> FALSE, cursors |-> cs, calls |-> <<get>>]

\* Mutant: a user is synchronized with the remote it came from too.
shouldUserSyncAnyOrigin(user, r, cs) == syncByCursor(user, r, cs)

\* shouldUserSync(user, rc): (sync, err), the table afterwards and the calls made.
shouldUserSync(user, r, cs) ==
    IF user.RemoteId # NoRemote /\ user.RemoteId = r
    THEN [sync |-> FALSE, err |-> FALSE, cursors |-> cs, calls |-> <<>>]
    ELSE syncByCursor(user, r, cs)

\* ----------------------------------------------------------- usersForPost
\* Mutant: the authors of reactions are not marked in the cache.
RECURSIVE reactionUserIdsUnmarked(_, _)
reactionUserIdsUnmarked(rs, acc) ==
    IF rs = <<>> THEN acc
    ELSE LET id == Head(rs).UserId IN
         reactionUserIdsUnmarked(Tail(rs),
            IF id \notin acc.uCache
            THEN [userIds |-> Append(acc.userIds, id), uCache |-> acc.uCache]
            ELSE acc)

\* Lines 133-138: the reaction authors not yet in the cache, in reaction order.
RECURSIVE reactionUserIds(_, _)
reactionUserIds(rs, acc) ==
    IF rs = <<>> THEN acc
    ELSE LET id == Head(rs).UserId IN
         reactionUserIds(Tail(rs),
            IF id \notin acc.uCache
            THEN [userIds |-> Append(acc.userIds, id), uCache |-> acc.uCache \cup {id}]
            ELSE acc)

\* Mutant: the author of the post is not marked in the cache.
collectUserIdsUnmarked(post, rs, uCache) ==
    LET first == IF post # NilPost /\ posts[post].UserId \notin uCache
                 THEN [userIds |-> <<posts[post].UserId>>, uCache |-> uCache]
                 ELSE [userIds |-> <<>>, uCache |-> uCache]
    IN  reactionUserIds(rs, first)

\* Lines 126-138: the candidate ids and the cache after marking them.
collectUserIds(post, rs, uCache) ==
    LET first == IF post # NilPost /\ posts[post].UserId \notin uCache
                 THEN [userIds |-> <<posts[post].UserId>>,
                       uCache |-> uCache \cup {posts[post].UserId}]
                 ELSE [userIds |-> <<>>, uCache |-> uCache]
    IN  reactionUserIds(rs, first)

\* Mutant: a user whose cursor could not be saved is not sent.
resolveUserUnlessSaved(id, r, cs, newId) ==
    LET got == UserGet(id)
        g == shouldUserSync(got.user, r, cs)
        calls == <<Call("UserGet", id, IF got.err THEN "error" ELSE "ok",
                        IF got.err THEN 0 ELSE got.user.UpdateAt)>>
                 \o (IF got.err THEN <<>> ELSE g.calls)
        sent == /\ ~got.err /\ ~g.err /\ g.sync
                /\ \A k \in DOMAIN g.calls : g.calls[k].res # "error"
    IN  [users |-> IF sent THEN <<sanitizeUserForSync(got.user, newId)>> ELSE <<>>,
         cursors |-> IF got.err THEN cs ELSE g.cursors, calls |-> calls]

\* Lines 145-159 for one candidate id; newId is what model.NewId() returns.
resolveUser(id, r, cs, newId) ==
    LET got == UserGet(id) IN
    IF got.err
    THEN [users |-> <<>>, cursors |-> cs, calls |-> <<Call("UserGet", id, "error", 0)>>]
    ELSE LET g == shouldUserSync(got.user, r, cs)
             calls == <<Call("UserGet", id, "ok", got.user.UpdateAt)>> \o g.calls
         IN  IF g.err
             THEN [users |-> <<>>, cursors |-> g.cursors, calls |-> calls]
             ELSE IF g.sync
             THEN [users |-> <<sanitizeUserForSync(got.user, newId)>>,
                   cursors |-> g.cursors, calls |-> calls]
             ELSE [users |-> <<>>, cursors |-> g.cursors, calls |-> calls]

\* Mutant: the loop ends at the first candidate whose lookup fails.
RECURSIVE resolveUsersUntilError(_, _, _, _)
resolveUsersUntilError(userIds, r, cs, newIds) ==
    IF userIds = <<>>
    THEN [users |-> <<>>, cursors |-> cs, calls |-> <<>>]
    ELSE LET one == resolveUser(Head(userIds), r, cs, newIds[Head(userIds)])
             rest == IF one.calls[Len(one.calls)].res = "error"
                     THEN [users |-> <<>>, cursors |-> one.cursors, calls |-> <<>>]
                     ELSE resolveUsersUntilError(Tail(userIds), r, one.cursors, newIds)
         IN  [users |-> one.users \o rest.users, cursors |-> rest.cursors,
              calls |-> one.calls \o rest.calls]

\* Mutant: a user is put in front of the users found before.
RECURSIVE resolveUsersNewestFirst(_, _, _, _)
resolveUsersNewestFirst(userIds, r, cs, newIds) ==
    IF userIds = <<>>
    THEN [users |-> <<>>, cursors |-> cs, calls |-> <<>>]
    ELSE LET one == resolveUser(Head(userIds), r, cs, newIds[Head(userIds)])
             rest == resolveUsersNewestFirst(Tail(userIds), r, one.cursors, newIds)
         IN  [users |-> rest.users \o one.users, cursors |-> rest.cursors,
              calls |-> one.calls \o rest.calls]

\* Lines 144-160: the loop over the candidate ids.
RECURSIVE resolveUsers(_, _, _, _)
resolveUsers(userIds, r, cs, newIds) ==
    IF userIds = <<>>
    THEN [users |-> <<>>, cursors |-> cs, calls |-> <<>>]
    ELSE LET one == resolveUser(Head(userIds), r, cs, newIds[Head(userIds)])
             rest == resolveUsers(Tail(userIds), r, one.cursors, newIds)
         IN  [users |-> one.users \o rest.users, cursors |-> rest.cursors,
              calls |-> one.calls \o rest.calls]

\* usersForPost(post, reactions, rc, uCache): the users, the cache and the table
\* afterwards, and the calls made.  newIds[id] is what model.NewId() returns
\* when id is sanitized.
usersForPost(post, rs, r, uCache, cs, newIds) ==
    LET c == collectUserIds(post, rs, uCache)
        x == resolveUsers(c.userIds, r, cs, newIds)
    IN  [users |-> x.users, uCache |-> c.uCache, cursors |-> x.cursors,
         calls |-> x.calls, userIds |-> c.userIds]

\* ---------------------------------------------------- postsToSyncMessages
\* Mutant: a post edited exactly at nextSyncAt is not sent.
postSyncOfEditedAfter(i, r, nextSyncAt) ==
    LET p == posts[i]
        edited == IF p.EditAt > 0 /\ p.EditAt <= nextSyncAt /\ p.DeleteAt = 0
                  THEN NilPost ELSE i
    IN  IF p.RemoteId # NoRemote /\ p.RemoteId = r THEN NilPost ELSE edited

\* Mutant: a deleted post edited before nextSyncAt is not sent.
postSyncOfIgnoringDelete(i, r, nextSyncAt) ==
    LET p == posts[i]
        edited == IF p.EditAt > 0 /\ p.EditAt < nextSyncAt
                  THEN NilPost ELSE i
    IN  IF p.RemoteId # NoRemote /\ p.RemoteId = r THEN NilPost ELSE edited

\* Lines 70-84: the pointer postSync, NilPost when the body is not sent.
postSyncOf(i, r, nextSyncAt) ==
    LET p == posts[i]
        edited == IF p.EditAt > 0 /\ p.EditAt < nextSyncAt /\ p.DeleteAt = 0
                  THEN NilPost ELSE i
    IN  IF p.RemoteId # NoRemote /\ p.RemoteId = r THEN NilPost ELSE edited

\* Mutant: no message is dropped.
isEmptyMessageNever(postSync, rs, us) == FALSE

\* Line 105: everything was filtered out.
isEmptyMessage(postSync, rs, us) ==
    postSync = NilPost /\ Len(rs) = 0 /\ Len(us) = 0

\* The call as a function of its arguments and of the stores: the loop of lines
\* 59-118 from post i on, with the cache, the cursor table and the result list
\* so far.  It is what one call returns when nothing else runs.
RECURSIVE syncMessagesFrom(_, _, _, _, _, _)
syncMessagesFrom(i, r, nextSyncAt, uCache, cs, syncMessages) ==
    IF i > Len(posts) THEN [units |-> syncMessages, err |-> FALSE]
    ELSE IF IsSystemMessage(posts[i])
    THEN syncMessagesFrom(i + 1, r, nextSyncAt, uCache, cs, syncMessages)
    ELSE IF GetForPostSince(i).err THEN [units |-> <<>>, err |-> TRUE]
    ELSE LET rs == GetForPostSince(i).reactions
             postSync == postSyncOf(i, r, nextSyncAt)
             ux == usersForPost(postSync, rs, r, uCache, cs, [id \in UserIds |-> "id1"])
             sm == [ChannelId |-> posts[i].ChannelId, PostId |-> posts[i].Id,
                    Post |-> postSync, Users |-> ux.users, Reactions |-> rs,
                    Attachments |-> attachmentsOf(i, postSync).files]
             next == [uCache |-> ux.uCache, cursors |-> ux.cursors,
                      syncMessages |-> IF isEmptyMessage(postSync, rs, ux.users)
                                       THEN syncMessages ELSE Append(syncMessages, sm)]
         IN  CHOOSE ret \in { syncMessagesFrom(i + 1, r, nextSyncAt, n.uCache, n.cursors,
                                                n.syncMessages) : n \in {next} } : TRUE

\* postsToSyncMessages(posts, rc, nextSyncAt) run alone from the current stores.
postsToSyncMessages(r, nextSyncAt) == syncMessagesFrom(1, r, nextSyncAt, {}, cursors, <<>>)

\* The field alone is history: what the call returns when it runs alone from
\* the state in which it was made (recorded where passes run concurrently).
IdlePass ==
    [pc |-> "idle", round |-> 1, nextSyncAt |-> 0, idx |-> 0, uCache |-> {},
     syncMessages |-> <<>>, calls |-> <<>>, retMsgs |-> <<>>, retErr |-> FALSE,
     alone |-> [units |-> <<>>, err |-> FALSE]]

CalledPass(t) == [IdlePass EXCEPT !.pc = "called", !.nextSyncAt = t]

\* Lines 54-57: the call starts with an empty result and a fresh cache.
Start(r) ==
    /\ pass[r].pc = "called"
    /\ pass' = [pass EXCEPT ![r].pc = "loop", ![r].idx = 0, ![r].uCache = {},
                            ![r].syncMessages = <<>>]
    /\ UNCHANGED <<posts, reactions, users, cursors, faults>>

Looping(r) == pass[r].pc = "loop" /\ pass[r].idx < Len(posts)

\* Mutant: the author of a system message is marked in the cache.
SkipSystemMessageMarking(r) ==
    /\ Looping(r)
    /\ IsSystemMessage(posts[pass[r].idx + 1])
    /\ pass' = [pass EXCEPT ![r].idx = @ + 1,
                            ![r].uCache = @ \cup {posts[pass[r].idx + 1].UserId}]
    /\ UNCHANGED <<posts, reactions, users, cursors, faults>>

\* Lines 60-62: a system message is skipped.
SkipSystemMessage(r) ==
    /\ Looping(r)
    /\ IsSystemMessage(posts[pass[r].idx + 1])
    /\ pass' = [pass EXCEPT ![r].idx = @ + 1]
    /\ UNCHANGED <<posts, reactions, users, cursors, faults>>

\* Mutant: the messages built so far are returned with the error.
ReactionFetchFailsPartial(r) ==
    /\ Looping(r)
    /\ LET i == pass[r].idx + 1 IN
       /\ ~IsSystemMessage(posts[i])
       /\ GetForPostSince(i).err
       /\ pass' = [pass EXCEPT ![r].idx = i,
                               ![r].pc = "done",
                               ![r].calls = Append(@, Call("GetForPostSince", i, "error", 0)),
                               ![r].retMsgs = pass[r].syncMessages,
                               ![r].retErr = TRUE]
    /\ UNCHANGED <<posts, reactions, users, cursors, faults>>

\* Lines 65-68: the reaction fetch fails and the call returns (nil, err).
ReactionFetchFails(r) ==
    /\ Looping(r)
    /\ LET i == pass[r].idx + 1 IN
       /\ ~IsSystemMessage(posts[i])
       /\ GetForPostSince(i).err
       /\ pass' = [pass EXCEPT ![r].idx = i,
                               ![r].pc = "done",
                               ![r].calls = Append(@, Call("GetForPostSince", i, "error", 0)),
                               ![r].retMsgs = <<>>,
                               ![r].retErr = TRUE]
    /\ UNCHANGED <<posts, reactions, users, cursors, faults>>

\* Line 89 assigns to the Message of the post object of the caller.  When a pass
\* for another remote is running over the same post objects and sends the
\* body of post i too, the two calls read and write that field without
\* synchronization: the string the field holds afterwards is the rewritten
\* message or a torn one.
MessageWritten(r, i) ==
    {processPermalinkToRemote(posts[i])}
    \cup (IF \E q \in Remotes \ {r} :
                /\ pass[q].pc = "loop"
                /\ postSyncOf(i, q, pass[q].nextSyncAt) # NilPost
           THEN {TornMessage} ELSE {})

\* Lines 65-117: one iteration for a post whose reactions were fetched.
SyncPost(r) ==
    /\ Looping(r)
    /\ LET i == pass[r].idx + 1
           p == posts[i]
           rx == GetForPostSince(i)
           postSync == postSyncOf(i, r, pass[r].nextSyncAt)
           ax == attachmentsOf(i, postSync)
           candidates ==
               { id \in UserIds :
                   \E k \in 1 .. Len(collectUserIds(postSync, rx.reactions, pass[r].uCache).userIds) :
                      collectUserIds(postSync, rx.reactions, pass[r].uCache).userIds[k] = id }
       IN
       /\ ~IsSystemMessage(p)
       /\ ~rx.err
       /\ \E newIds \in [candidates -> NewIds] :
            LET ux == usersForPost(postSync, rx.reactions, r, pass[r].uCache, cursors, newIds)
                sm == [ChannelId |-> p.ChannelId, PostId |-> p.Id, Post |-> postSync,
                       Users |-> ux.users, Reactions |-> rx.reactions,
                       Attachments |-> ax.files]
                fetched == <<Call("GetForPostSince", i, "ok", 0)>>
                attached == IF postSync # NilPost
                            THEN <<Call("postToAttachments", i,
                                        IF ax.err THEN "error" ELSE "ok", 0)>>
                            ELSE <<>>
            IN
            /\ \E message \in MessageWritten(r, i) :
                 posts' = IF postSync # NilPost
                          THEN [posts EXCEPT ![i].Message = message]
                          ELSE posts
            /\ cursors' = ux.cursors
            /\ pass' = [pass EXCEPT ![r].idx = i,
                                    ![r].uCache = ux.uCache,
                                    ![r].calls = @ \o fetched \o attached \o ux.calls,
                                    ![r].syncMessages =
                                        IF isEmptyMessage(postSync, rx.reactions, ux.users)
                                        THEN @ ELSE Append(@, sm)]
    /\ UNCHANGED <<reactions, users, faults>>

\* Line 119: the loop is over and the call returns (syncMessages, nil).
Return(r) ==
    /\ pass[r].pc = "loop"
    /\ pass[r].idx = Len(posts)
    /\ pass' = [pass EXCEPT ![r].pc = "done",
                            ![r].retMsgs = pass[r].syncMessages,
                            ![r].retErr = FALSE]
    /\ UNCHANGED <<posts, reactions, users, cursors, faults>>

\* The caller runs the next pass for the remote over the same batch: a new call
\* with a new result list and a new cache.  By then the outage of the
\* SharedChannelUsers table may have spread from its writes to its reads.
CallAgain(r) ==
    /\ pass[r].pc = "done"
    /\ pass[r].round < MaxPasses
    /\ pass' = [pass EXCEPT ![r] = [CalledPass(pass[r].nextSyncAt)
                                      EXCEPT !.round = pass[r].round + 1]]
    /\ faults' \in {faults, [faults EXCEPT !.GetUser = @ \cup faults.SaveUser]}
    /\ UNCHANGED <<posts, reactions, users, cursors>>

Next ==
    \E r \in Targets :
        \/ Start(r)
        \/ SkipSystemMessage(r)
        \/ ReactionFetchFails(r)
        \/ SyncPost(r)
        \/ Return(r)

\* ---------------------------------------------------------------- inputs
RECURSIVE SeqsUpTo(_, _)
SeqsUpTo(S, n) ==
    IF n = 0 THEN {<<>>}
    ELSE LET shorter == SeqsUpTo(S, n - 1) IN
         shorter \cup { Append(s, x) : s \in shorter, x \in S }

\* The reactions of n posts by the given authors, at most m in all.
RECURSIVE ReactionLists(_, _, _)
ReactionLists(n, authors, m) ==
    IF n = 0 THEN {<<>>}
    ELSE UNION { { Append(f, s) : f \in ReactionLists(n - 1, authors, m - Len(s)) } :
                 s \in SeqsUpTo({ [UserId |-> u] : u \in authors }, m) }

\* A new local post.
NewPost(i, u) == Post(i, "", u, 0, 0, NoRemote)

\* Every post the classification tells apart, written by u1, and a system message.
AnyPost(i) ==
    { Post(i, "", "u1", e, d, o) : e \in Times, d \in 0 .. 1, o \in Origins }
    \cup { Post(i, SystemType, "u1", 0, 0, NoRemote) }

\* Batches of new posts by u1 in which one post, at any place, is any post.
VariedBatches ==
    {<<>>} \cup UNION { UNION { { [i \in 1 .. n |-> IF i = k THEN p ELSE NewPost(i, "u1")] :
                                  p \in AnyPost(k) } : k \in 1 .. n } : n \in 1 .. MaxPosts }

\* Batches of new local posts by the given authors.
NewBatches(authors) ==
    UNION { { [i \in 1 .. n |-> NewPost(i, f[i])] : f \in [1 .. n -> authors] } :
            n \in 0 .. MaxPosts }

LocalUser(u) == StoredUser(u, NoRemote, 1)
LocalUsers == [u \in UserIds |-> LocalUser(u)]
NoCursors == [u \in UserIds |-> [r \in Remotes |-> Absent]]
Cursors == {Absent} \cup { Present(t) : t \in Times }

NoFaults ==
    [GetForPostSince |-> {}, UserGet |-> {}, GetUser |-> {}, SaveUser |-> {},
     postToAttachments |-> {}]

\* At most MaxFaults failing store calls in a pass over n posts.
FaultSets(n) ==
    { f \in [GetForPostSince : SUBSET (1 .. n), UserGet : SUBSET UserIds,
             GetUser : SUBSET UserIds, SaveUser : SUBSET UserIds,
             postToAttachments : SUBSET (1 .. n)] :
        Cardinality(f.GetForPostSince) + Cardinality(f.UserGet) + Cardinality(f.GetUser)
          + Cardinality(f.SaveUser) + Cardinality(f.postToAttachments) <= MaxFaults }

Called(r, t) == [q \in Remotes |-> IF q = r THEN CalledPass(t) ELSE IdlePass]

\* Every post the classification tells apart, at every place of a batch and for
\* every nextSyncAt; the stores are healthy and no user was synchronized before.
InitPosts ==
    /\ posts \in VariedBatches
    /\ reactions \in ReactionLists(Len(posts), {"u2"}, MaxReactions)
    /\ users = LocalUsers
    /\ cursors = NoCursors
    /\ faults = NoFaults
    /\ pass \in { Called(r, t) : r \in Targets, t \in Times }

\* New posts by any authors with reactions by any authors; user u1 has any
\* origin, any UpdateAt and any cursor for the target remote.
InitUsers ==
    /\ posts \in NewBatches(UserIds)
    /\ reactions \in ReactionLists(Len(posts), UserIds, MaxReactions)
    /\ faults = NoFaults
    /\ \E r \in Targets, o \in Origins, t \in 1 .. MaxTime, c \in Cursors :
         /\ users = [LocalUsers EXCEPT !["u1"] = StoredUser("u1", o, t)]
         /\ cursors = [NoCursors EXCEPT !["u1"][r] = c]
         /\ pass = Called(r, 1)

\* New posts by u1 with reactions by any authors, and failing store calls.
InitFaults ==
    /\ posts \in NewBatches({"u1"})
    /\ reactions \in ReactionLists(Len(posts), UserIds, MaxReactions)
    /\ users = LocalUsers
    /\ cursors = NoCursors
    /\ faults \in FaultSets(Len(posts))
    /\ pass \in { Called(r, 1) : r \in Targets }

\* Batches with one system message, at any place, by any author; the other
\* posts are new local posts.
SystemBatches ==
    UNION { UNION { { [i \in 1 .. n |-> IF i = k THEN Post(i, SystemType, f[i], 0, 0, NoRemote)
                                        ELSE NewPost(i, f[i])] :
                      f \in [1 .. n -> UserIds] } : k \in 1 .. n } : n \in 1 .. MaxPosts }

\* A batch with a system message that has reactions in the store; the reaction
\* fetch for the system message may be failing.
InitSystem ==
    /\ posts \in SystemBatches
    /\ reactions \in ReactionLists(Len(posts), UserIds, MaxReactions)
    /\ users = LocalUsers
    /\ cursors = NoCursors
    /\ faults \in { [NoFaults EXCEPT !.GetForPostSince = s] :
                     s \in SUBSET { i \in DOMAIN posts : IsSystemMessage(posts[i]) } }
    /\ pass \in { Called(r, 1) : r \in Targets }

Init == InitPosts \/ InitUsers \/ InitFaults \/ InitSystem

Spec == Init /\ [][Next]_vars

\* New posts by u1, who has any origin, any UpdateAt and any cursor for the
\* target remote; the stores are healthy.
InitCursors ==
    /\ posts \in NewBatches({"u1"})
    /\ reactions = [i \in DOMAIN posts |-> <<>>]
    /\ faults = NoFaults
    /\ \E r \in Targets, o \in Origins, t \in 1 .. MaxTime, c \in Cursors :
         /\ users = [LocalUsers EXCEPT !["u1"] = StoredUser("u1", o, t)]
         /\ cursors = [NoCursors EXCEPT !["u1"][r] = c]
         /\ pass = Called(r, 1)

\* Two calls, one for each remote, over the same post objects and stores; each
\* call records what it returns when it runs alone.
BothCalled(t) ==
    [r \in Remotes |-> [CalledPass(t) EXCEPT !.alone = postsToSyncMessages(r, t)]]

\* The caller starts a pass for every remote at once, before any of them runs.
CallConcurrently ==
    /\ \A r \in Remotes : pass[r].pc = "idle"
    /\ pass' = BothCalled(1)
    /\ UNCHANGED <<posts, reactions, users, cursors, faults>>

\* At most one failing store call in a pass over n posts.
SingleFaults(n) ==
    { f \in FaultSets(n) :
        Cardinality(f.GetForPostSince) + Cardinality(f.UserGet) + Cardinality(f.GetUser)
          + Cardinality(f.SaveUser) + Cardinality(f.postToAttachments) <= 1 }

\* The inputs of two concurrent passes: any post at any place of a batch without
\* reactions, or new posts by u1 with reactions by u2; then u1 has any origin
\* and no cursor or an up-to-date cursor for r1, or one store call is failing.
InitConcurrent ==
    /\ \/ /\ posts \in VariedBatches
          /\ reactions = [i \in DOMAIN posts |-> <<>>]
          /\ users = LocalUsers
          /\ cursors = NoCursors
          /\ faults = NoFaults
       \/ /\ posts \in NewBatches({"u1"})
          /\ reactions \in ReactionLists(Len(posts), {"u2"}, MaxReactions)
          /\ \/ /\ faults = NoFaults
                /\ \E o \in Origins, c \in {Absent, Present(1)} :
                     /\ users = [LocalUsers EXCEPT !["u1"] = StoredUser("u1", o, 1)]
                     /\ cursors = [NoCursors EXCEPT !["u1"]["r1"] = c]
             \/ /\ faults \in SingleFaults(Len(posts))
                /\ users = LocalUsers
                /\ cursors = NoCursors
    /\ pass = [r \in Remotes |-> IdlePass]

NextConcurrent ==
    \/ CallConcurrently
    \/ \E r \in Remotes :
        \/ Start(r)
        \/ SkipSystemMessage(r)
        \/ ReactionFetchFails(r)
        \/ SyncPost(r)
        \/ Return(r)

SpecConcurrent == InitConcurrent /\ [][NextConcurrent]_vars

\* New posts by u1 with reactions by u2, and failing store calls; no user has
\* both the lookup and the save of the cursor failing from the start.
InitOutage ==
    /\ posts \in NewBatches({"u1"})
    /\ reactions \in ReactionLists(Len(posts), {"u2"}, MaxReactions)
    /\ users = LocalUsers
    /\ cursors = NoCursors
    /\ faults \in { f \in FaultSets(Len(posts)) : f.GetUser \cap f.SaveUser = {} }
    /\ pass \in { Called(r, 1) : r \in Targets }

\* Passes for one remote, one after the other, over the same batch.
InitRepeated == InitCursors \/ InitOutage \/ InitSystem

NextRepeated == Next \/ \E r \in Targets : CallAgain(r)

SpecRepeated == InitRepeated /\ [][NextRepeated]_vars


\* ---------------------------------------------------------------- claims
Done(r) == pass[r].pc = "done"
Succeeded(r) == Done(r) /\ ~pass[r].retErr

\* The sync messages of pass r: those appended so far and those returned.
Lists(r) == {pass[r].syncMessages, pass[r].retMsgs}

\* The ids of the users in the sync messages ms.
UserIdsIn(ms) ==
    { id \in UserIds : \E k \in DOMAIN ms : \E j \in DOMAIN ms[k].Users : ms[k].Users[j].Id = id }

\* The candidates the pass for r has met: the authors of reactions that were
\* fetched and of bodies that are sent.
Reacted(r, id) ==
    \E i \in 1 .. pass[r].idx :
        /\ ~IsSystemMessage(posts[i])
        /\ i \notin faults.GetForPostSince
        /\ \E k \in DOMAIN reactions[i] : reactions[i][k].UserId = id

\* What the spec says about the body: new, edited at or after the cursor, or
\* deleted, and not from the target remote.
BodyDue(p, r) ==
    /\ p.EditAt = 0 \/ p.EditAt >= pass[r].nextSyncAt \/ p.DeleteAt > 0
    /\ p.RemoteId # r

Authored(r, id) ==
    \E i \in 1 .. pass[r].idx :
        /\ ~IsSystemMessage(posts[i])
        /\ i \notin faults.GetForPostSince
        /\ BodyDue(posts[i], r)
        /\ posts[i].UserId = id

\* C1: no sync message of a pass has Post absent, Users empty and Reactions
\* empty all at once.
C1_NoEmptyMessage ==
    \A r \in Remotes : \A ms \in Lists(r) : \A k \in DOMAIN ms :
        ~(ms[k].Post = NilPost /\ ms[k].Users = <<>> /\ ms[k].Reactions = <<>>)

\* A pass returned a sync message and dropped a post that is no system message.
C1_Witness ==
    \E r \in Remotes :
        /\ Succeeded(r)
        /\ pass[r].retMsgs # <<>>
        /\ \E i \in DOMAIN posts :
             /\ ~IsSystemMessage(posts[i])
             /\ \A k \in DOMAIN pass[r].retMsgs : pass[r].retMsgs[k].PostId # i

\* C2: a sync message carries the post exactly when the post is new, edited at
\* or after nextSyncAt or deleted, and is not from the target remote.
C2_BodyExactlyWhenDue ==
    \A r \in Remotes : \A ms \in Lists(r) : \A k \in DOMAIN ms :
        LET p == posts[ms[k].PostId] IN
        /\ ~IsSystemMessage(p)
        /\ (ms[k].Post # NilPost) <=> BodyDue(p, r)
        /\ ms[k].Post # NilPost => ms[k].Post = ms[k].PostId

\* One pass returned a message with the body of a new post and a message without
\* the body of a post edited before nextSyncAt.
C2_Witness ==
    \E r \in Remotes :
        /\ Succeeded(r)
        /\ \E k \in DOMAIN pass[r].retMsgs :
             /\ pass[r].retMsgs[k].Post # NilPost
             /\ posts[pass[r].retMsgs[k].PostId].EditAt = 0
        /\ \E k \in DOMAIN pass[r].retMsgs :
             LET p == posts[pass[r].retMsgs[k].PostId] IN
             /\ pass[r].retMsgs[k].Post = NilPost
             /\ p.EditAt > 0 /\ p.EditAt < pass[r].nextSyncAt /\ p.DeleteAt = 0
             /\ p.RemoteId # r

\* C3 as stated: every sync message of a deleted post carries the post.
C3_DeletedAlwaysSent ==
    \A r \in Remotes : \A ms \in Lists(r) : \A k \in DOMAIN ms :
        posts[ms[k].PostId].DeleteAt > 0 => ms[k].Post # NilPost

\* C3 (amended): every sync message of a deleted post that is not from the
\* target remote carries the post, whatever EditAt and nextSyncAt are.
C3_DeletedSentUnlessFromRemote ==
    \A r \in Remotes : \A ms \in Lists(r) : \A k \in DOMAIN ms :
        LET p == posts[ms[k].PostId] IN
        p.DeleteAt > 0 /\ p.RemoteId # r => ms[k].Post # NilPost

\* A deleted post edited before nextSyncAt was returned with its body.
C3_Witness ==
    \E r \in Remotes :
        /\ Succeeded(r)
        /\ \E k \in DOMAIN pass[r].retMsgs :
             LET p == posts[pass[r].retMsgs[k].PostId] IN
             /\ p.DeleteAt > 0 /\ p.EditAt > 0 /\ p.EditAt < pass[r].nextSyncAt
             /\ pass[r].retMsgs[k].Post # NilPost

\* C4: a user id occurs at most once over the Users of all sync messages of a pass.
C4_UserAtMostOnce ==
    \A r \in Remotes : \A ms \in Lists(r) :
        \A k1 \in DOMAIN ms, k2 \in DOMAIN ms :
            \A j1 \in DOMAIN ms[k1].Users, j2 \in DOMAIN ms[k2].Users :
                ms[k1].Users[j1].Id = ms[k2].Users[j2].Id => k1 = k2 /\ j1 = j2

\* A user sent with the first message is met again at the second post, as its
\* author or as the author of a reaction, and two messages were returned.
C4_Witness ==
    \E r \in Remotes :
        /\ Succeeded(r)
        /\ Len(pass[r].retMsgs) = 2
        /\ Len(posts) = 2
        /\ \E id \in UserIdsIn(<<pass[r].retMsgs[1]>>) :
             \/ posts[2].UserId = id
             \/ \E k \in DOMAIN reactions[2] : reactions[2][k].UserId = id

\* C5: a user whose origin is the target remote is in no sync message for it.
C5_NoUserOfTargetRemote ==
    \A r \in Remotes : \A ms \in Lists(r) : \A k \in DOMAIN ms :
        \A j \in DOMAIN ms[k].Users :
            /\ ms[k].Users[j].RemoteId # r
            /\ users[ms[k].Users[j].Id].RemoteId # r

\* A user of the target remote wrote a post whose body was returned and reacted
\* to a post, and is in no message.
C5_Witness ==
    \E r \in Remotes : \E id \in UserIds :
        /\ Succeeded(r)
        /\ users[id].RemoteId = r
        /\ Authored(r, id) /\ Reacted(r, id)
        /\ pass[r].retMsgs # <<>>
        /\ id \notin UserIdsIn(pass[r].retMsgs)

\* C6: a user whose cursor for the target remote has LastSyncAt >= UpdateAt is in
\* no sync message of the pass, and a user whose cursor was found with
\* LastSyncAt < UpdateAt is in one.
C6_CursorDecides ==
    \A r \in Remotes :
        /\ \A id \in UserIds :
             cursors[id][r].st = "present" /\ cursors[id][r].LastSyncAt >= users[id].UpdateAt
                => \A ms \in Lists(r) : id \notin UserIdsIn(ms)
        /\ \A k \in DOMAIN pass[r].calls :
             LET c == pass[r].calls[k] IN
             c.op = "GetUser" /\ c.res = "found" =>
                /\ c.at = cursors[c.id][r].LastSyncAt
                /\ users[c.id].RemoteId # r
                /\ (c.at < users[c.id].UpdateAt) <=> (c.id \in UserIdsIn(pass[r].syncMessages))

\* The cursor of a candidate was found with LastSyncAt >= UpdateAt and the
\* user is in no message, while the other user is.
C6_Witness ==
    \E r \in Remotes : \E id \in UserIds :
        /\ Succeeded(r)
        /\ \E k \in DOMAIN pass[r].calls :
             /\ pass[r].calls[k].op = "GetUser" /\ pass[r].calls[k].res = "found"
             /\ pass[r].calls[k].id = id
             /\ pass[r].calls[k].at >= users[id].UpdateAt
        /\ id \notin UserIdsIn(pass[r].retMsgs)
        /\ UserIdsIn(pass[r].retMsgs) # {}

FailingPosts ==
    { i \in DOMAIN posts : ~IsSystemMessage(posts[i]) /\ i \in faults.GetForPostSince }

FirstFailingPost == CHOOSE i \in FailingPosts : \A j \in FailingPosts : i <= j

\* C8: when the reaction fetch fails for a post, the pass stops at that post and
\* returns the error and no sync message at all.
C8_FetchErrorReturnsNothing ==
    \A r \in Remotes :
        /\ Done(r) /\ FailingPosts # {} =>
             /\ pass[r].retErr
             /\ pass[r].retMsgs = <<>>
             /\ pass[r].idx = FirstFailingPost
             /\ pass[r].calls[Len(pass[r].calls)] =
                    Call("GetForPostSince", FirstFailingPost, "error", 0)
             /\ \A k \in DOMAIN pass[r].calls :
                  pass[r].calls[k].op \in {"GetForPostSince", "postToAttachments"}
                     => pass[r].calls[k].id <= FirstFailingPost
        /\ Done(r) /\ pass[r].retErr => FailingPosts # {}

\* The fetch failed at the second post after a message was built for the first.
C8_Witness ==
    \E r \in Remotes :
        /\ Done(r) /\ pass[r].retErr
        /\ pass[r].idx = 2
        /\ pass[r].syncMessages # <<>>
        /\ pass[r].retMsgs = <<>>

\* The users the pass owes to the remote: authors of a sent body or of a fetched
\* reaction, not from the target remote, without a cursor or with an older one.
Eligible(r, id) ==
    /\ Authored(r, id) \/ Reacted(r, id)
    /\ users[id].RemoteId # r
    /\ cursors[id][r].st = "absent" \/ cursors[id][r].LastSyncAt < users[id].UpdateAt

\* Every post that is no system message and has a body to send or reactions
\* has its message, with that body and those reactions.
ContentSent(r) ==
    \A i \in DOMAIN posts :
        ~IsSystemMessage(posts[i]) /\ (BodyDue(posts[i], r) \/ reactions[i] # <<>>) =>
            \E k \in DOMAIN pass[r].retMsgs :
                /\ pass[r].retMsgs[k].PostId = i
                /\ pass[r].retMsgs[k].Post = (IF BodyDue(posts[i], r) THEN i ELSE NilPost)
                /\ pass[r].retMsgs[k].Reactions = reactions[i]

\* C9 as stated: a pass that returns no error has sent every post's body and
\* reactions and every eligible user.
C9_SuccessSendsAll ==
    \A r \in Remotes :
        Succeeded(r) =>
            /\ ContentSent(r)
            /\ \A id \in UserIds : Eligible(r, id) => id \in UserIdsIn(pass[r].retMsgs)

\* C9 (amended): a pass that returns no error has sent every post's body and
\* reactions and every eligible user whose lookups in the user store and in
\* the SharedChannelUsers table did not fail.
C9_SuccessSendsAllLookedUp ==
    \A r \in Remotes :
        Succeeded(r) =>
            /\ ContentSent(r)
            /\ \A id \in UserIds :
                 Eligible(r, id) /\ id \notin faults.UserGet /\ id \notin faults.GetUser
                    => id \in UserIdsIn(pass[r].retMsgs)

\* The lookup of the first candidate failed and the second candidate was sent.
C9_Witness ==
    \E r \in Remotes : \E id \in UserIds, other \in UserIds :
        /\ Succeeded(r)
        /\ Eligible(r, id) /\ id \in faults.UserGet \cup faults.GetUser
        /\ id \notin UserIdsIn(pass[r].retMsgs)
        /\ Len(posts) >= 1 /\ posts[1].UserId = id
        /\ other # id /\ Eligible(r, other) /\ other \in UserIdsIn(pass[r].retMsgs)

\* A user record in which every field sanitizeUserForSync resets is reset.
Sanitized(u) ==
    /\ u.Password \in NewIds
    /\ u.AuthData = "nil"
    /\ u.AuthService = ""
    /\ u.Roles = "system_user"
    /\ u.AllowMarketing = FALSE
    /\ u.Props = {}
    /\ u.NotifyProps = {}
    /\ u.LastPasswordUpdate = 0
    /\ u.LastPictureUpdate = 0
    /\ u.FailedAttempts = 0
    /\ u.MfaActive = FALSE
    /\ u.MfaSecret = ""

SentUsers ==
    { u \in UNION { UNION { { ms[k].Users[j] : j \in DOMAIN ms[k].Users } : k \in DOMAIN ms } :
                    ms \in UNION { Lists(r) : r \in Remotes } } : TRUE }

\* What sanitizeUserForSync leaves alone.
SameIdentity(u, v) ==
    u.Id = v.Id /\ u.RemoteId = v.RemoteId /\ u.UpdateAt = v.UpdateAt

\* C10 as stated: every user sent is sanitized and keeps its id, and sanitizing
\* it again yields the same record.
C10_SanitizedAndIdempotent ==
    \A u \in SentUsers :
        /\ Sanitized(u) /\ SameIdentity(u, users[u.Id]) /\ u.Password # users[u.Id].Password
        /\ \A n \in NewIds : sanitizeUserForSync(u, n) = u

\* C10 (amended): every user sent is sanitized and keeps its id, and sanitizing
\* it again yields the same record but for the credential, which is replaced
\* by what model.NewId() returns then.
C10_SanitizedAndIdempotentButPassword ==
    \A u \in SentUsers :
        /\ Sanitized(u) /\ SameIdentity(u, users[u.Id]) /\ u.Password # users[u.Id].Password
        /\ \A n \in NewIds : sanitizeUserForSync(u, n) = [u EXCEPT !.Password = n]

\* A pass returned two users, one of them not a local user.
C10_Witness ==
    \E r \in Remotes :
        /\ Succeeded(r)
        /\ UserIdsIn(pass[r].retMsgs) = UserIds
        /\ \E u \in SentUsers : u.RemoteId # NoRemote

\* The original of a post object: its message as the caller passed it.
Original(p) == [p EXCEPT !.Message = LocalPermalink]

\* C11: when a pass has returned, every post object of the batch has the field
\* values, the message included, that it had before the call.
C11_PostsUnchanged ==
    \A r \in Remotes : Done(r) => \A i \in DOMAIN posts : posts[i] = Original(posts[i])

\* The calls of pass r that looked up user id and failed.
FailedLookups(r, id) ==
    { k \in DOMAIN pass[r].calls :
        /\ pass[r].calls[k].op \in {"UserGet", "GetUser"}
        /\ pass[r].calls[k].id = id
        /\ pass[r].calls[k].res = "error" }

\* The calls of pass r with operation op for user id.
CallsOf(r, op, id) ==
    { k \in DOMAIN pass[r].calls : pass[r].calls[k].op = op /\ pass[r].calls[k].id = id }

\* C12: a candidate is in the cache from the moment it is looked up: no id is
\* looked up twice in one pass, and an id whose lookup failed is in no sync
\* message of the pass.
C12_MarkedBeforeLookup ==
    \A r \in Remotes : \A id \in UserIds :
        /\ Cardinality(CallsOf(r, "UserGet", id)) <= 1
        /\ Cardinality(CallsOf(r, "GetUser", id)) <= 1
        /\ CallsOf(r, "UserGet", id) # {} => id \in pass[r].uCache
        /\ FailedLookups(r, id) # {} => \A ms \in Lists(r) : id \notin UserIdsIn(ms)

\* The lookup of the author of the first post failed, the same user wrote the
\* second post and reacted to it, and both posts were returned.
C12_Witness ==
    \E r \in Remotes : \E id \in UserIds :
        /\ Succeeded(r)
        /\ Len(posts) = 2 /\ posts[1].UserId = id /\ posts[2].UserId = id
        /\ \E k \in DOMAIN reactions[2] : reactions[2][k].UserId = id
        /\ FailedLookups(r, id) # {}
        /\ Len(pass[r].retMsgs) = 2
        /\ pass[r].retMsgs[1].Post # NilPost /\ pass[r].retMsgs[2].Post # NilPost

\* C13: a failing user lookup or cursor lookup takes only that user out: the
\* pass returns no error because of it, no cursor is saved for that user, and
\* every other candidate is in a sync message exactly when it is eligible.
C13_LookupFailureSkipsOnlyThatUser ==
    \A r \in Remotes :
        /\ Done(r) /\ FailingPosts = {} => ~pass[r].retErr
        /\ \A id \in UserIds :
             FailedLookups(r, id) # {} =>
                /\ id \notin UserIdsIn(pass[r].syncMessages)
                /\ CallsOf(r, "SaveUser", id) = {}
                /\ cursors[id][r] = Absent
        /\ \A id \in UserIds :
             /\ Authored(r, id) \/ Reacted(r, id)
             /\ id \notin faults.UserGet \cup faults.GetUser
             => /\ CallsOf(r, "UserGet", id) # {}
                /\ (id \in UserIdsIn(pass[r].syncMessages)) <=> Eligible(r, id)

\* The cursor lookup of the first candidate of a post failed with a store error,
\* the second candidate of that post was sent with it, and the pass returned
\* no error.
C13_Witness ==
    \E r \in Remotes : \E id \in UserIds, other \in UserIds :
        /\ Succeeded(r)
        /\ id # other
        /\ \E k \in FailedLookups(r, id) : pass[r].calls[k].op = "GetUser"
        /\ Len(pass[r].retMsgs) >= 1
        /\ posts[1].UserId = id
        /\ pass[r].retMsgs[1].Post # NilPost
        /\ other \in UserIdsIn(<<pass[r].retMsgs[1]>>)

\* C14: a cursor lookup that reports not-found is for a user not from the target
\* remote and is followed by the save of a cursor with LastSyncAt 0; the user
\* is sent whether the save succeeds, and the cursor exists, or fails, and
\* the cursor is still absent.
C14_NotFoundSavesAndSyncs ==
    \A r \in Remotes : \A k \in DOMAIN pass[r].calls :
        LET c == pass[r].calls[k] IN
        c.op = "GetUser" /\ c.res = "notfound" =>
            /\ users[c.id].RemoteId # r
            /\ k + 1 \in DOMAIN pass[r].calls
            /\ LET s == pass[r].calls[k + 1] IN
               /\ s.op = "SaveUser" /\ s.id = c.id /\ s.at = 0
               /\ s.res = "ok" => cursors[c.id][r] = Present(0)
               /\ s.res = "error" => cursors[c.id][r] = Absent
            /\ c.id \in UserIdsIn(pass[r].syncMessages)

\* In one pass the save of the cursor failed for one user and succeeded for the
\* other, and both users were returned.
C14_Witness ==
    \E r \in Remotes : \E id \in UserIds, other \in UserIds :
        /\ Succeeded(r)
        /\ \E k \in CallsOf(r, "SaveUser", id) : pass[r].calls[k].res = "error"
        /\ \E k \in CallsOf(r, "SaveUser", other) : pass[r].calls[k].res = "ok"
        /\ {id, other} \subseteq UserIdsIn(pass[r].retMsgs)

\* The calls of pass r with operation op for user id that ended with res.
CallsEnded(r, op, id, res) ==
    { k \in CallsOf(r, op, id) : pass[r].calls[k].res = res }

\* C15 as stated: while every save of the cursor of a user fails, the cursor
\* stays absent and every pass that looks the user up with success sends the
\* user.
C15_FailedSaveSyncsAgain ==
    \A r \in Remotes : \A id \in faults.SaveUser :
        /\ cursors[id][r] = Absent
        /\ CallsEnded(r, "UserGet", id, "ok") # {} => id \in UserIdsIn(pass[r].syncMessages)

\* C15 (amended): while every save of the cursor of a user fails, the cursor
\* stays absent, and every pass that looks the user up with success and whose
\* cursor lookup does not fail with a store error finds no cursor for a user
\* not from the remote, tries the save again and sends the user.
C15_FailedSaveSyncsAgainWhenLookedUp ==
    \A r \in Remotes : \A id \in faults.SaveUser :
        /\ cursors[id][r] = Absent
        /\ /\ CallsEnded(r, "UserGet", id, "ok") # {}
           /\ id \notin faults.GetUser
           /\ users[id].RemoteId # r
           => /\ CallsEnded(r, "GetUser", id, "notfound") # {}
              /\ CallsEnded(r, "SaveUser", id, "error") # {}
              /\ id \in UserIdsIn(pass[r].syncMessages)

\* The second pass for a remote has returned a user whose cursor it tried to save
\* without success, as the pass before did.
C15_Witness ==
    \E r \in Remotes : \E id \in faults.SaveUser :
        /\ Succeeded(r)
        /\ pass[r].round = 2
        /\ CallsEnded(r, "SaveUser", id, "error") # {}
        /\ cursors[id][r] = Absent
        /\ id \in UserIdsIn(pass[r].retMsgs)

\* The ids pass r has met as candidates: authors of a body that is sent and
\* of reactions that were fetched, of posts that are no system messages.
Candidates(r) == { id \in UserIds : Authored(r, id) \/ Reacted(r, id) }

\* C16: a system message has no sync message, no reaction fetch and no
\* attachment fetch; the cache holds, and the user store and the cursor table
\* are asked for, only the candidates of the other posts; a pass returns an
\* error only at a post that is no system message.
C16_SystemMessageSkipped ==
    \A r \in Remotes :
        /\ \A i \in DOMAIN posts :
             IsSystemMessage(posts[i]) =>
                /\ \A ms \in Lists(r) : \A k \in DOMAIN ms : ms[k].PostId # i
                /\ \A k \in DOMAIN pass[r].calls :
                     pass[r].calls[k].op \in {"GetForPostSince", "postToAttachments"}
                        => pass[r].calls[k].id # i
        /\ pass[r].uCache = Candidates(r)
        /\ \A k \in DOMAIN pass[r].calls :
             pass[r].calls[k].op \in {"UserGet", "GetUser", "SaveUser"}
                => pass[r].calls[k].id \in Candidates(r)
        /\ Done(r) /\ pass[r].retErr => ~IsSystemMessage(posts[pass[r].idx])

\* A pass returned without error over a batch with a system message whose
\* reaction fetch is failing and which has reactions in the store; its author
\* was looked up for no other post and another post was returned.
C16_Witness ==
    \E r \in Remotes : \E i \in DOMAIN posts :
        /\ Succeeded(r)
        /\ IsSystemMessage(posts[i])
        /\ i \in faults.GetForPostSince
        /\ reactions[i] # <<>>
        /\ posts[i].UserId \notin pass[r].uCache
        /\ pass[r].retMsgs # <<>>

\* The candidates of post i for a sync message m in the order usersForPost
\* meets them: the author when the body is sent, then the reaction authors.
SeenOrder(i, m) ==
    (IF m.Post # NilPost THEN <<posts[i].UserId>> ELSE <<>>)
    \o [k \in DOMAIN reactions[i] |-> reactions[i][k].UserId]

\* The place at which id is first met in the sequence ids.
FirstSeen(ids, id) == CHOOSE k \in DOMAIN ids : ids[k] = id /\ \A j \in 1 .. k - 1 : ids[j] # id

\* C17: the sync messages are in the order of their posts, one per post at
\* most, and the users of a sync message are in the order the candidates are
\* first met: the author of a sent body, then the reaction authors.
C17_OrderKept ==
    \A r \in Remotes : \A ms \in Lists(r) :
        /\ \A k1 \in DOMAIN ms, k2 \in DOMAIN ms : k1 < k2 => ms[k1].PostId < ms[k2].PostId
        /\ \A k \in DOMAIN ms :
             LET ids == SeenOrder(ms[k].PostId, ms[k]) IN
             /\ \A j \in DOMAIN ms[k].Users : \E n \in DOMAIN ids : ids[n] = ms[k].Users[j].Id
             /\ \A j1 \in DOMAIN ms[k].Users, j2 \in DOMAIN ms[k].Users :
                  j1 < j2 => FirstSeen(ids, ms[k].Users[j1].Id) < FirstSeen(ids, ms[k].Users[j2].Id)

\* Two sync messages were returned; the first has two users, the author of the
\* post before the other user, whose reaction is the first reaction of the post.
C17_Witness ==
    \E r \in Remotes :
        /\ Succeeded(r)
        /\ Len(pass[r].retMsgs) = 2
        /\ LET m == pass[r].retMsgs[1] IN
           /\ m.Post # NilPost
           /\ Len(m.Users) = 2
           /\ m.Users[1].Id = posts[m.PostId].UserId
           /\ Len(reactions[m.PostId]) = 2
           /\ reactions[m.PostId][1].UserId = m.Users[2].Id
           /\ reactions[m.PostId][2].UserId = m.Users[1].Id

\* C18: a failing attachment fetch leaves the sync message of the post with an
\* empty attachment list and with its body and reactions, and is not the
\* error of the pass; a sync message without the body has no attachments; a
\* pass that returns no error has sent every post and every user it owes.
C18_AttachmentFailureNotFatal ==
    \A r \in Remotes :
        /\ \A ms \in Lists(r) : \A k \in DOMAIN ms :
             LET m == ms[k] IN
             /\ m.Post = NilPost => m.Attachments = <<>>
             /\ m.Post # NilPost /\ m.PostId \in faults.postToAttachments =>
                  /\ m.Attachments = <<>>
                  /\ m.Reactions = reactions[m.PostId]
             /\ m.Post # NilPost /\ m.PostId \notin faults.postToAttachments =>
                  m.Attachments = <<"file1">>
        /\ Done(r) /\ FailingPosts = {} =>
             /\ ~pass[r].retErr
             /\ ContentSent(r)
             /\ \A id \in UserIds :
                  Eligible(r, id) /\ id \notin faults.UserGet /\ id \notin faults.GetUser
                     => id \in UserIdsIn(pass[r].retMsgs)

\* The attachment fetch failed for the first of two posts; the pass returned no
\* error and both posts, the first with its body, a user and a reaction and
\* without attachments, the second with its attachments.
C18_Witness ==
    \E r \in Remotes :
        /\ Succeeded(r)
        /\ 1 \in faults.postToAttachments
        /\ Len(pass[r].retMsgs) = 2
        /\ LET m == pass[r].retMsgs[1] IN
           /\ m.PostId = 1 /\ m.Post = 1
           /\ m.Users # <<>> /\ m.Reactions # <<>>
           /\ m.Attachments = <<>>
        /\ pass[r].retMsgs[2].Attachments # <<>>


\* The sync messages ms without the credentials model.NewId() made.
WithoutCredentials(ms) ==
    [k \in DOMAIN ms |->
        [ms[k] EXCEPT !.Users = [j \in DOMAIN ms[k].Users |->
                                    [ms[k].Users[j] EXCEPT !.Password = ""]]]]

\* What a pass running with a pass for another remote returns is what the call
\* returns alone: the same error and the same sync messages, with the same
\* post references, users, reactions and attachments.
UnitsSameAsAlone ==
    \A r \in Remotes :
        Done(r) =>
            /\ pass[r].retErr = pass[r].alone.err
            /\ WithoutCredentials(pass[r].retMsgs) = WithoutCredentials(pass[r].alone.units)

\* C19: two passes that run concurrently for two remotes over the same posts
\* return each what it returns when run alone: the same error, the same
\* sync messages, and every post a sync message refers to reads as the
\* rewrite of the message the caller passed.
C19_ConcurrentSameAsAlone ==
    /\ UnitsSameAsAlone
    /\ \A r \in Remotes :
         Done(r) =>
            \A k \in DOMAIN pass[r].retMsgs :
                LET i == pass[r].retMsgs[k].Post IN
                i # NilPost => posts[i].Message = processPermalinkToRemote(Original(posts[i]))

\* Both passes returned the same user, each with two sync messages, and the
\* cursor of the user was created for both remotes.
C19_Witness ==
    \E id \in UserIds :
        \A r \in Remotes :
            /\ Succeeded(r)
            /\ Len(pass[r].retMsgs) = 2
            /\ id \in UserIdsIn(pass[r].retMsgs)
            /\ CallsEnded(r, "SaveUser", id, "ok") # {}
            /\ cursors[id][r] = Present(0)

\* C20: over any sequence of passes, a step changes a cursor only from absent to
\* a record with LastSyncAt 0, for a user not from the remote whose lookup
\* just reported not-found; and every save the pass asked for, whether it
\* succeeded or not, is such a creation.
C20_OnlyCursorCreations ==
    [][\A r \in Remotes : \A id \in UserIds :
          /\ cursors'[id][r] # cursors[id][r] =>
                /\ cursors[id][r] = Absent
                /\ cursors'[id][r] = Present(0)
                /\ users[id].RemoteId # r
                /\ \E k \in DOMAIN pass'[r].calls :
                     /\ k > Len(pass[r].calls)
                     /\ pass'[r].calls[k].op = "SaveUser"
                     /\ pass'[r].calls[k] = Call("SaveUser", id, "ok", 0)
          /\ \A k \in DOMAIN pass'[r].calls :
                pass'[r].calls[k].op = "SaveUser" /\ pass'[r].calls[k].id = id =>
                   /\ pass'[r].calls[k].at = 0
                   /\ users[id].RemoteId # r
                   /\ id \notin faults.GetUser
                   /\ k > 1
                   /\ pass'[r].calls[k - 1].op = "GetUser"
                   /\ pass'[r].calls[k - 1] = Call("GetUser", id, "notfound", 0)]_vars

\* The second pass for a remote found the cursor the pass before created, with
\* LastSyncAt 0, asked for no save and returned the user again.
C20_Witness ==
    \E r \in Remotes : \E id \in UserIds :
        /\ Succeeded(r)
        /\ pass[r].round = 2
        /\ CallsEnded(r, "GetUser", id, "found") # {}
        /\ CallsOf(r, "SaveUser", id) = {}
        /\ cursors[id][r] = Present(0)
        /\ id \in UserIdsIn(pass[r].retMsgs)

====
